---- MODULE Spec2Model ----
(***************************************************************************)
(* The connection/session state machine of the Wired push server           *)
(* (wired/wired.go, type Connection) together with the main goroutine of   *)
(* main.go.  Every goroutine of the program is a task in the bag `tasks`;  *)
(* one action is one step of one goroutine between two accesses to the     *)
(* shared Connection record or to a transport.                             *)
(***************************************************************************)
EXTENDS Integers, Sequences, FiniteSets, Bags, TLC

\* ------------------------------------------------------------------ bounds
\* Successful transport opens in one run.
MaxTransports == 2
\* Inbound frames the peer sends in one run.
MaxFrames == 2
\* Watchdog ticks in one run.
MaxTicks == 1
\* Characters in a transaction name or a field value handed to the encoder.
MaxText == 1

\* ------------------------------------------------------- program constants
Disconnected == 0
Reconnecting == 1
Connected == 2
\* "if this.retryCount > 20"
RetryCeiling == 20
\* "delay := 15 * time.Second"
ReconnectDelay == 15
\* "if duration.Seconds() >= 60"
PingStale == 60

\* Transaction and field names of the wire protocol.
ClientHandshake == "p7.handshake.client_handshake"
ServerHandshake == "p7.handshake.server_handshake"
Acknowledge == "p7.handshake.acknowledge"
CompatSpec == "p7.compatibility_check.specification"
CompatStatus == "p7.compatibility_check.status"
ClientInfo == "wired.client_info"
ServerInfo == "wired.server_info"
SendLoginTx == "wired.send_login"
LoginTx == "wired.login"
SetNickTx == "wired.user.set_nick"
SetStatusTx == "wired.user.set_status"
SetIconTx == "wired.user.set_icon"
JoinChatTx == "wired.chat.join_chat"
DisconnectTx == "wired.user.disconnect_user"
PingTx == "wired.ping"
SendPingTx == "wired.send_ping"
ErrorTx == "wired.error"
UserJoinTx == "wired.chat.user_join"
FVersion == "p7.handshake.protocol.version"
FCompat == "p7.handshake.compatibility_check"
FUserID == "wired.user.id"
FNick == "wired.user.nick"

GuestUser == "guest"
GuestDigest == "da39a3ee5e6b4b0d3255bfef95601890afd80709"

\* The specification catalog: version string -> pre-encoded document.  A Go
\* map read with a missing key yields the zero value, the empty string.
SupportedVersions == {"2.0b51", "2.0b53", "2.0b55"}
Specs(v) == IF v \in SupportedVersions THEN "WiredSpec_" \o v ELSE ""

VARIABLES
  status,         \* Connection.status
  retryCount,     \* Connection.retryCount
  version,        \* Connection.version
  userID,         \* Connection.userID
  socket,         \* Connection.socket: 0 is nil, n > 0 the n-th transport
  sinceLastPing,  \* time.Since(Connection.lastPing) in seconds, capped at PingStale
  transports,     \* state of every transport opened so far
  tasks,          \* bag of the live goroutines
  proc,           \* the process: "running", "panicked" or "exited"
  frames,         \* the frames read so far, each with the transport it came from
  sent,           \* every sendTransaction call that reached socket.Write
  pushes,         \* alerts handed to the push-notification sink
  budget,         \* what the environment may still do
  menu,           \* the peer of this run, by the name of the frames it chooses from
  slept           \* the seconds Reconnect goroutines have spent in their delay

vars == <<status, retryCount, version, userID, socket, sinceLastPing, transports,
          tasks, proc, frames, sent, pushes, budget, menu, slept>>

\* ------------------------------------------------------------------ tasks
\* A goroutine: its kind, its position, and what it carries.
\*   sock: the transport a reader is bound to; for a handler, a sender, a
\*         watchdog or a Reconnect the transport that caused it (0: none)
\*   by:   the number of the frame that caused it (0: none)
\*   name, arg: the transaction a sender writes and its field mapping
\*   tmp:  a local integer of the goroutine
Task(type, pc, sock, by, name, arg, tmp) ==
  [type |-> type, pc |-> pc, sock |-> sock, by |-> by, name |-> name, arg |-> arg,
   tmp |-> tmp]

NoArg == {}
One(t) == SetToBag({t})
Live == BagToSet(tasks)
Running == proc = "running"

MainTask(pc) == Task("main", pc, 0, 0, "", NoArg, 0)
ReconnectTask(pc, sock) == Task("reconnect", pc, sock, 0, "", NoArg, 0)
ReaderTask(pc, sock) == Task("reader", pc, sock, 0, "", NoArg, 0)
WatchdogTask(sock) == Task("watchdog", "tick", sock, 0, "", NoArg, 0)
ProcTask(sock, by) == Task("proc", "decode", sock, by, "", NoArg, 0)
SendTask(sock, by, name, arg) == Task("send", "write", sock, by, name, arg, 0)
PostLoginTask(pc, sock, by) == Task("postlogin", pc, sock, by, "", NoArg, 0)

\* A field mapping (map[string]string) is a set of <<key, value>> pairs.

HandshakeParams ==
  {<<"p7.handshake.version", "1.0">>, <<"p7.handshake.protocol.name", "Wired">>,
   <<"p7.handshake.protocol.version", "2.0">>}

ClientInfoParams ==
  {<<"wired.info.application.name", "Wired Client">>,
   <<"wired.info.application.version", "2.1">>,
   <<"wired.info.application.build", "306">>,
   <<"wired.info.os.name", "Mac OS X">>,
   <<"wired.info.os.version", "10.9.2">>,
   <<"wired.info.arch", "x86_64">>,
   <<"wired.info.supports_rsrc", "false">>}

LoginParams(user, password) ==
  {<<"wired.user.login", user>>, <<"wired.user.password", password>>}

IconData == "iVBORw0KGgoAAAANSUhEUgAAAEAAAABACAQAAAAAYLlVAAABHElEQVR4A"

\* ------------------------------------------------------------- transports
\* A write on a transport succeeds while the transport is open and fails once
\* the peer has reset it or this side has closed it.
WriteOk(t) == transports[t] = "open"

\* sendTransaction called by goroutine t, which goes on as `next`: the envelope
\* is built and written to this.socket.  A nil socket is a nil-pointer
\* dereference, which ends the process; a write error is logged and nothing
\* else.
SendTransaction(t, name, params, next) ==
  IF socket = 0
    THEN /\ proc' = "panicked"
         /\ sent' = sent
         /\ tasks' = tasks
    ELSE /\ sent' = Append(sent, [name |-> name, params |-> params, by |-> t.by,
                                   origin |-> t.sock, sock |-> socket,
                                   ok |-> WriteOk(socket)])
         /\ proc' = proc
         /\ tasks' = (tasks (-) One(t)) (+) next

\* What reached transport t, in order.
Wire(t) == SelectSeq(sent, LAMBDA e : e.sock = t /\ e.ok)

\* The program after construction, before main calls Connect, with an
\* environment that may still do what b allows and whose peer sends frames of m.
Start(b, m) ==
  /\ status = Disconnected
  /\ retryCount = 0
  /\ version = ""
  /\ userID = ""
  /\ socket = 0
  /\ sinceLastPing = PingStale
  /\ transports = <<>>
  /\ tasks = One(MainTask("dial"))
  /\ proc = "running"
  /\ frames = <<>>
  /\ sent = <<>>
  /\ pushes = <<>>
  /\ budget = b
  /\ menu = m
  /\ slept = 0

\* o transport opens, d failed dials, f inbound frames, k watchdog ticks and
\* i lines of user input.
Budget(o, d, f, k, i) ==
  [opens |-> o, fails |-> d, frames |-> f, ticks |-> k, inputs |-> i]

\* ---------------------------------------------------------------- Connect
\* Connect runs in the main goroutine first and then as the tail of Reconnect.
InConnect(t) == t \in Live /\ t.type \in {"main", "reconnect"}

\* The caller after Connect has returned: main goes on to wait for input,
\* a Reconnect goroutine ends.
Returned(t) == IF t.type = "main" THEN One(MainTask("input")) ELSE EmptyBag

\* net.DialTimeout succeeded: this.socket is the new transport.
DialOk ==
  \E t \in Live :
    /\ Running /\ InConnect(t) /\ t.pc = "dial"
    /\ budget.opens > 0
    /\ budget' = [budget EXCEPT !.opens = @ - 1]
    /\ transports' = Append(transports, "open")
    /\ socket' = Len(transports) + 1
    /\ tasks' = (tasks (-) One(t)) (+) One([t EXCEPT !.pc = "reset"])
    /\ UNCHANGED <<status, retryCount, version, userID, sinceLastPing, proc, frames,
                   sent, pushes, menu, slept>>

\* A Connect that starts Reconnect on a failed dial and also dials again itself.
RetriesInPlace(t) == One([t EXCEPT !.pc = "dial"]) (+) One(ReconnectTask("status", 0))

\* What a Connect whose dial failed leaves behind: "go this.Reconnect()" and
\* "return".
AfterDialFail(t) == Returned(t) (+) One(ReconnectTask("status", 0))

\* net.DialTimeout failed: this.socket is nil, Reconnect is started as a
\* goroutine and Connect returns.
DialFail ==
  \E t \in Live :
    /\ Running /\ InConnect(t) /\ t.pc = "dial"
    /\ budget.fails > 0
    /\ budget' = [budget EXCEPT !.fails = @ - 1]
    /\ socket' = 0
    /\ tasks' = (tasks (-) One(t)) (+) AfterDialFail(t)
    /\ UNCHANGED <<status, retryCount, version, userID, sinceLastPing, transports, proc,
                   frames, sent, pushes, menu, slept>>

\* "this.retryCount = 0"
ResetRetryCount ==
  \E t \in Live :
    /\ Running /\ InConnect(t) /\ t.pc = "reset"
    /\ retryCount' = 0
    /\ tasks' = (tasks (-) One(t)) (+) One([t EXCEPT !.pc = "handshake"])
    /\ UNCHANGED <<status, version, userID, socket, sinceLastPing, transports, proc,
                   frames, sent, pushes, budget, menu, slept>>

\* The handshake-initiation transaction.
SendHandshake ==
  \E t \in Live :
    /\ Running /\ InConnect(t) /\ t.pc = "handshake"
    /\ SendTransaction(t, ClientHandshake, HandshakeParams, One([t EXCEPT !.pc = "listen"]))
    /\ UNCHANGED <<status, retryCount, version, userID, socket, sinceLastPing, transports,
                   frames, pushes, budget, menu, slept>>

\* "go this.readData()" and the watchdog goroutine; then Connect returns.
StartListening ==
  \E t \in Live :
    /\ Running /\ InConnect(t) /\ t.pc = "listen"
    /\ tasks' = (((tasks (-) One(t)) (+) Returned(t)) (+) One(ReaderTask("start", 0)))
                (+) One(WatchdogTask(socket))
    /\ UNCHANGED <<status, retryCount, version, userID, socket, sinceLastPing, transports,
                   proc, frames, sent, pushes, budget, menu, slept>>

\* -------------------------------------------------------------- Reconnect
\* A retry counter that counts a failed attempt twice.
NextRetryCountTwice(n) == n + 2

\* "this.retryCount++" writes the value it read plus one.
NextRetryCount(n) == n + 1

\* "if this.retryCount > 20"
ExceedsCeiling(n) == n > RetryCeiling

InReconnect(t) == t \in Live /\ t.type = "reconnect"

\* "this.status = Reconnecting"
ReconnectStatus ==
  \E t \in Live :
    /\ Running /\ InReconnect(t) /\ t.pc = "status"
    /\ status' = Reconnecting
    /\ tasks' = (tasks (-) One(t)) (+) One([t EXCEPT !.pc = "load"])
    /\ UNCHANGED <<retryCount, version, userID, socket, sinceLastPing, transports, proc,
                   frames, sent, pushes, budget, menu, slept>>

\* "this.retryCount++", the read
ReconnectLoad ==
  \E t \in Live :
    /\ Running /\ InReconnect(t) /\ t.pc = "load"
    /\ tasks' = (tasks (-) One(t)) (+) One([t EXCEPT !.pc = "store", !.tmp = retryCount])
    /\ UNCHANGED <<status, retryCount, version, userID, socket, sinceLastPing, transports,
                   proc, frames, sent, pushes, budget, menu, slept>>

\* "this.retryCount++", the write
ReconnectStore ==
  \E t \in Live :
    /\ Running /\ InReconnect(t) /\ t.pc = "store"
    /\ retryCount' = NextRetryCount(t.tmp)
    /\ tasks' = (tasks (-) One(t)) (+) One([t EXCEPT !.pc = "check", !.tmp = 0])
    /\ UNCHANGED <<status, version, userID, socket, sinceLastPing, transports, proc,
                   frames, sent, pushes, budget, menu, slept>>

\* A Reconnect that calls Connect again at once, without a delay.
ConnectsAtOnce(t) == [t EXCEPT !.pc = "dial"]

\* Under the ceiling: "time.Sleep(delay)" comes next, and then this.Connect().
AfterCheck(t) == [t EXCEPT !.pc = "sleep"]

\* The ceiling test: over the ceiling the status becomes Disconnected and the
\* goroutine goes on to log.Panicln; otherwise it starts the fixed delay.
ReconnectCheck ==
  \E t \in Live :
    /\ Running /\ InReconnect(t) /\ t.pc = "check"
    /\ IF ExceedsCeiling(retryCount)
         THEN /\ status' = Disconnected
              /\ tasks' = (tasks (-) One(t)) (+) One([t EXCEPT !.pc = "panic"])
         ELSE /\ status' = status
              /\ tasks' = (tasks (-) One(t)) (+) One(AfterCheck(t))
    /\ UNCHANGED <<retryCount, version, userID, socket, sinceLastPing, transports, proc,
                   frames, sent, pushes, budget, menu, slept>>

\* log.Panicln in a goroutine with no recover: the process ends.
ReconnectPanic ==
  \E t \in Live :
    /\ Running /\ InReconnect(t) /\ t.pc = "panic"
    /\ proc' = "panicked"
    /\ UNCHANGED <<status, retryCount, version, userID, socket, sinceLastPing, transports,
                   tasks, frames, sent, pushes, budget, menu, slept>>

\* ------------------------------------------------------------------- time
Min(a, b) == IF a < b THEN a ELSE b

\* A goroutine in time.Sleep(delay) goes on to this.Connect() once the delay
\* has passed.
Woken(t) == IF t.type = "reconnect" /\ t.pc = "sleep" THEN [t EXCEPT !.pc = "dial"] ELSE t

\* ReconnectDelay seconds pass.
Advance ==
  /\ Running
  /\ \/ sinceLastPing < PingStale
     \/ \E t \in Live : Woken(t) # t
  /\ sinceLastPing' = Min(PingStale, sinceLastPing + ReconnectDelay)
  /\ tasks' = BagOfAll(Woken, tasks)
  /\ slept' = IF \E t \in Live : Woken(t) # t THEN slept + ReconnectDelay ELSE slept
  /\ UNCHANGED <<status, retryCount, version, userID, socket, transports, proc, frames,
                 sent, pushes, budget, menu>>

\* --------------------------------------------------------------- watchdog
\* The watchdog goroutines wait on their tickers.  When a 90 second period
\* ends, the ticker of every watchdog goroutine delivers a tick; tmp holds the
\* period whose tick a watchdog has still to handle.
Ticked(t) == IF t.type = "watchdog" THEN [t EXCEPT !.tmp = budget.ticks] ELSE t

TickerFires ==
  /\ Running
  /\ budget.ticks > 0
  /\ \E t \in Live : t.type = "watchdog"
  /\ \A t \in Live : t.type = "watchdog" => t.tmp = 0
  /\ tasks' = BagOfAll(Ticked, tasks)
  /\ budget' = [budget EXCEPT !.ticks = @ - 1]
  /\ UNCHANGED <<status, retryCount, version, userID, socket, sinceLastPing, transports,
                 proc, frames, sent, pushes, menu, slept>>

\* The test of one watchdog tick.
ProactivePing(st, since) == st = Connected /\ since >= PingStale

\* The transaction started by the tick of period e is recorded as caused by -e.
WatchdogTick ==
  \E t \in Live :
    /\ Running /\ t \in Live /\ t.type = "watchdog" /\ t.tmp > 0
    /\ tasks' = ((tasks (-) One(t)) (+) One([t EXCEPT !.tmp = 0]))
                (+) (IF ProactivePing(status, sinceLastPing)
                       THEN One(SendTask(t.sock, 0 - t.tmp, PingTx, {}))
                       ELSE EmptyBag)
    /\ UNCHANGED <<status, retryCount, version, userID, socket, sinceLastPing, transports,
                   proc, frames, sent, pushes, budget, menu, slept>>

\* ----------------------------------------------------------- inbound frames
\* A decoded message: its name and its fields in document order.  A frame
\* xml.Unmarshal rejects has ok = FALSE.
Field(n, v) == [name |-> n, value |-> v]
Msg(name, fields) == [ok |-> TRUE, name |-> name, fields |-> fields]
Malformed == [ok |-> FALSE, name |-> "", fields |-> <<>>]

\* The handshake offers of the peer: both flags, both field orders, a version
\* the catalog has and one it has not, and offers lacking either field.
OfferVersions == {"2.0b55", "9.9"}
Flags == {"0", "1"}
HandshakeOffers ==
  UNION {{Msg(ServerHandshake, <<Field(FVersion, v), Field(FCompat, c)>>),
          Msg(ServerHandshake, <<Field(FCompat, c), Field(FVersion, v)>>)} :
         <<v, c>> \in OfferVersions \X Flags}
  \cup {Msg(ServerHandshake, <<Field(FCompat, c)>>) : c \in Flags}
  \cup {Msg(ServerHandshake, <<Field(FVersion, "2.0b55")>>)}

UserIDs == {"42"}
ErrorCodes == {"wired.error.login_failed", "wired.banned", "wired.error.internal_error"}

Frames ==
  HandshakeOffers
  \cup {Msg(CompatStatus, <<Field(CompatStatus, c)>>) : c \in Flags}
  \cup {Msg(ServerInfo, <<>>)}
  \cup {Msg(LoginTx, <<Field(FUserID, u)>>) : u \in UserIDs}
  \cup {Msg(LoginTx, <<>>)}
  \cup {Msg(SendPingTx, <<>>)}
  \cup {Msg(ErrorTx, <<Field(ErrorTx, e)>>) : e \in ErrorCodes}
  \cup {Msg(ErrorTx, <<Field(ErrorTx, "wired.error.internal_error"),
                       Field("wired.error.string", "wired.banned")>>)}
  \cup {Msg(UserJoinTx, <<Field(FNick, "morris")>>)}
  \cup {Msg("wired.chat.user_leave", <<>>)}
  \cup {Malformed}

LoginResult == Msg(LoginTx, <<Field(FUserID, "42")>>)

\* The peers, by what they may send as frame k + 1: one that may send any
\* frame, one that sends login results, one that sends login results and
\* server infos and, from its third frame on, only the periodic server info,
\* one that sends a login result and then ping requests, one that sends
\* a frame that does not decode and then login results, and one that offers
\* a handshake with the compatibility check at a version the catalog has and
\* then a handshake at a version the catalog has not.
MenuFrames(m, k) ==
  CASE m = "any" -> Frames
    [] m = "login" -> {LoginResult}
    [] m = "login, server info" ->
         IF k < 2 THEN {LoginResult, Msg(ServerInfo, <<>>)} ELSE {Msg(ServerInfo, <<>>)}
    [] m = "login, ping" -> IF k = 0 THEN {LoginResult} ELSE {Msg(SendPingTx, <<>>)}
    [] m = "malformed, login" -> IF k = 0 THEN {Malformed} ELSE {LoginResult}
    [] m = "offers" ->
         IF k = 0
           THEN {Msg(ServerHandshake, <<Field(FVersion, "2.0b55"), Field(FCompat, "1")>>)}
           ELSE {Msg(ServerHandshake, <<Field(FVersion, "9.9"), Field(FCompat, "0")>>)}

\* A peer that follows the protocol answers what it received on transport n
\* and has not answered yet: the handshake-initiation with a handshake offer,
\* the compatibility check with a compatibility status, the client info with
\* a server info and the login with a login result.
Received(n, name) == \E i \in DOMAIN sent : sent[i].sock = n /\ sent[i].ok /\ sent[i].name = name
Answered(n, name) == \E k \in DOMAIN frames : frames[k].sock = n /\ frames[k].frame.name = name
Reply(n, request, answers) ==
  IF Received(n, request) /\ \A f \in answers : ~Answered(n, f.name) THEN answers ELSE {}
ProtocolReplies(n) ==
  Reply(n, ClientHandshake,
        {Msg(ServerHandshake, <<Field(FVersion, "2.0b55"), Field(FCompat, c)>>) : c \in Flags})
  \cup Reply(n, CompatSpec, {Msg(CompatStatus, <<Field(CompatStatus, "1")>>)})
  \cup Reply(n, ClientInfo, {Msg(ServerInfo, <<>>)})
  \cup Reply(n, SendLoginTx, {LoginResult})

\* What the peer of this run may send next on transport n.
PeerFrames(n) ==
  IF menu = "protocol" THEN ProtocolReplies(n) ELSE MenuFrames(menu, Len(frames))

\* ----------------------------------------------------------------- reader
\* "reader := bufio.NewReader(this.socket)"
ReaderStart ==
  \E t \in Live :
    /\ Running /\ t \in Live /\ t.type = "reader" /\ t.pc = "start"
    /\ tasks' = (tasks (-) One(t)) (+) One(ReaderTask("read", socket))
    /\ UNCHANGED <<status, retryCount, version, userID, socket, sinceLastPing, transports,
                   proc, frames, sent, pushes, budget, menu, slept>>

\* ReadBytes returned a frame: it is handed to a new processData goroutine.
ReadFrame ==
  \E t \in Live :
    /\ Running /\ t \in Live /\ t.type = "reader" /\ t.pc = "read"
    /\ t.sock # 0 /\ transports[t.sock] = "open"
    /\ \E f \in PeerFrames(t.sock) :
         /\ budget.frames > 0
         /\ budget' = [budget EXCEPT !.frames = @ - 1]
         /\ frames' = Append(frames, [frame |-> f, sock |-> t.sock])
         /\ tasks' = tasks (+) One(ProcTask(t.sock, Len(frames) + 1))
         /\ UNCHANGED <<status, retryCount, version, userID, socket, sinceLastPing, transports,
                        proc, sent, pushes, menu, slept>>

\* A read loop that starts Reconnect and goes on reading.
ReadLoopGoesOn(t) == One(ReconnectTask("status", t.sock)) (+) One(t)

\* A read loop that starts Reconnect twice for one read error.
ReconnectTwice(t) == One(ReconnectTask("status", t.sock)) (+) One(ReconnectTask("status", t.sock))

\* What a read loop leaves behind on a read error: "go this.Reconnect()" and
\* "break".  The data ReadBytes returned with the error is not dispatched.
AfterReadError(t) == One(ReconnectTask("status", t.sock))

\* ReadBytes returned an error: Reconnect is started as a goroutine and the
\* read loop ends.  Reading through a nil socket is a nil-pointer dereference.
ReadError ==
  \E t \in Live :
    /\ Running /\ t \in Live /\ t.type = "reader" /\ t.pc = "read"
    /\ IF t.sock = 0
         THEN /\ proc' = "panicked"
              /\ tasks' = tasks
         ELSE /\ transports[t.sock] # "open"
              /\ proc' = proc
              /\ tasks' = (tasks (-) One(t)) (+) AfterReadError(t)
    /\ UNCHANGED <<status, retryCount, version, userID, socket, sinceLastPing, transports,
                   frames, sent, pushes, budget, menu, slept>>

\* The peer closes or resets a transport.
PeerClose ==
  \E n \in DOMAIN transports :
    /\ Running
    /\ n \in DOMAIN transports /\ transports[n] = "open"
    /\ transports' = [transports EXCEPT ![n] = "reset"]
    /\ UNCHANGED <<status, retryCount, version, userID, socket, sinceLastPing, tasks, proc,
                   frames, sent, pushes, budget, menu, slept>>

\* ------------------------------------------------------------ processData
InProc(t) == t \in Live /\ t.type = "proc"
FrameOf(t) == frames[t.by].frame
Spawn(t, name, arg) == One(SendTask(t.sock, t.by, name, arg))
ProcUnchanged == UNCHANGED <<retryCount, socket, transports, frames, sent, budget, menu, slept>>

\* A handler that treats a frame that does not decode as a transport failure.
DropFrameReconnects ==
  \E t \in Live :
    /\ Running /\ InProc(t) /\ ~FrameOf(t).ok
    /\ tasks' = (tasks (-) One(t)) (+) One(ReconnectTask("status", t.sock))
    /\ UNCHANGED <<status, version, userID, sinceLastPing, proc, pushes>>
    /\ ProcUnchanged

\* xml.Unmarshal failed: the frame is logged and dropped.
DropFrame ==
  \E t \in Live :
    /\ Running /\ InProc(t) /\ ~FrameOf(t).ok
    /\ tasks' = tasks (-) One(t)
    /\ UNCHANGED <<status, version, userID, sinceLastPing, proc, pushes>>
    /\ ProcUnchanged

\* A scan that settles the compatibility decision when it reaches the version
\* field, from the flag seen until then.
RECURSIVE ScanHandshakeAtVersion(_, _, _)
ScanHandshakeAtVersion(fields, ver, check) ==
  IF fields = <<>>
    THEN [version |-> ver, sendCheck |-> FALSE]
    ELSE LET f == Head(fields) IN
         IF f.name = FVersion
           THEN [version |-> f.value, sendCheck |-> check]
           ELSE IF f.name = FCompat
                  THEN ScanHandshakeAtVersion(Tail(fields), ver, check \/ f.value = "1")
                  ELSE ScanHandshakeAtVersion(Tail(fields), ver, check)

\* The scan of a handshake offer: the last version field is kept, and the
\* check is wanted once a compatibility field with value "1" was seen.
RECURSIVE ScanHandshake(_, _, _)
ScanHandshake(fields, ver, check) ==
  IF fields = <<>>
    THEN [version |-> ver, sendCheck |-> check]
    ELSE LET f == Head(fields) IN
         IF f.name = FVersion
           THEN ScanHandshake(Tail(fields), f.value, check)
           ELSE IF f.name = FCompat
                  THEN ScanHandshake(Tail(fields), ver, check \/ f.value = "1")
                  ELSE ScanHandshake(Tail(fields), ver, check)

\* The transaction a handshake offer is answered with after the acknowledgement.
HandshakeReply(sendCheck) == IF sendCheck THEN CompatSpec ELSE ClientInfo

\* The field mapping of a transaction whose sender goroutine builds it from
\* the Connection when it runs.
ParamsAtSend(name, arg) ==
  IF name = CompatSpec THEN {<<CompatSpec, Specs(version)>>} ELSE arg

HandleHandshake ==
  \E t \in Live :
    /\ Running /\ InProc(t) /\ FrameOf(t).ok /\ FrameOf(t).name = ServerHandshake
    /\ LET r == ScanHandshake(FrameOf(t).fields, version, FALSE)
           reply == HandshakeReply(r.sendCheck)
       IN /\ version' = r.version
          /\ tasks' = ((tasks (-) One(t)) (+) Spawn(t, Acknowledge, {}))
                      (+) Spawn(t, reply, IF reply = ClientInfo THEN ClientInfoParams ELSE {})
    /\ UNCHANGED <<status, userID, sinceLastPing, proc, pushes>>
    /\ ProcUnchanged

\* A scan that skips a status field that is not "1" instead of panicking.
RECURSIVE ScanCompatLenient(_, _)
ScanCompatLenient(fields, n) ==
  IF fields = <<>>
    THEN [spawned |-> n, panics |-> FALSE]
    ELSE IF Head(fields).name = CompatStatus /\ Head(fields).value = "1"
           THEN ScanCompatLenient(Tail(fields), n + 1)
           ELSE ScanCompatLenient(Tail(fields), n)

\* The scan of a compatibility status: client-info goroutines started before
\* the first status field that is not "1", and whether there is such a field.
RECURSIVE ScanCompat(_, _)
ScanCompat(fields, n) ==
  IF fields = <<>>
    THEN [spawned |-> n, panics |-> FALSE]
    ELSE LET f == Head(fields) IN
         IF f.name = CompatStatus
           THEN IF f.value = "1"
                  THEN ScanCompat(Tail(fields), n + 1)
                  ELSE [spawned |-> n, panics |-> TRUE]
           ELSE ScanCompat(Tail(fields), n)

RECURSIVE Copies(_, _)
Copies(b, n) == IF n = 0 THEN EmptyBag ELSE b (+) Copies(b, n - 1)

HandleCompatStatus ==
  \E t \in Live :
    /\ Running /\ InProc(t) /\ FrameOf(t).ok /\ FrameOf(t).name = CompatStatus
    /\ LET r == ScanCompat(FrameOf(t).fields, 0)
       IN /\ proc' = IF r.panics THEN "panicked" ELSE proc
          /\ tasks' = (tasks (-) One(t)) (+) Copies(Spawn(t, ClientInfo, ClientInfoParams), r.spawned)
    /\ UNCHANGED <<status, version, userID, sinceLastPing, pushes>>
    /\ ProcUnchanged

\* A server-info handler that logs in whatever the status is.
LoginAlways(st) == TRUE

\* A server-info handler that never logs in.
LoginNever(st) == FALSE

\* "if this.status != Connected"
LoginWanted(st) == st # Connected

HandleServerInfo ==
  \E t \in Live :
    /\ Running /\ InProc(t) /\ FrameOf(t).ok /\ FrameOf(t).name = ServerInfo
    /\ tasks' = IF LoginWanted(status)
                  THEN (tasks (-) One(t)) (+) Spawn(t, SendLoginTx, LoginParams(GuestUser, GuestDigest))
                  ELSE tasks (-) One(t)
    /\ UNCHANGED <<status, version, userID, sinceLastPing, proc, pushes>>
    /\ ProcUnchanged

\* The user id a login result leaves in this.userID: the last id field's.
RECURSIVE ScanLogin(_, _)
ScanLogin(fields, id) ==
  IF fields = <<>>
    THEN id
    ELSE ScanLogin(Tail(fields), IF Head(fields).name = FUserID THEN Head(fields).value ELSE id)

HandleLogin ==
  \E t \in Live :
    /\ Running /\ InProc(t) /\ FrameOf(t).ok /\ FrameOf(t).name = LoginTx
    /\ userID' = ScanLogin(FrameOf(t).fields, userID)
    /\ tasks' = (tasks (-) One(t)) (+) One(PostLoginTask("nick", t.sock, t.by))
    /\ UNCHANGED <<status, version, sinceLastPing, proc, pushes>>
    /\ ProcUnchanged

\* A ping handler that replies without recording when the request came.
HandlePingNoStamp ==
  \E t \in Live :
    /\ Running /\ InProc(t) /\ FrameOf(t).ok /\ FrameOf(t).name = SendPingTx
    /\ tasks' = (tasks (-) One(t)) (+) Spawn(t, PingTx, {})
    /\ UNCHANGED <<status, version, userID, sinceLastPing, proc, pushes>>
    /\ ProcUnchanged

HandlePing ==
  \E t \in Live :
    /\ Running /\ InProc(t) /\ FrameOf(t).ok /\ FrameOf(t).name = SendPingTx
    /\ sinceLastPing' = 0
    /\ tasks' = (tasks (-) One(t)) (+) Spawn(t, PingTx, {})
    /\ UNCHANGED <<status, version, userID, proc, pushes>>
    /\ ProcUnchanged

\* The values of an error message that make processData panic.
FatalError(v) == v = "wired.error.login_failed" \/ v = "wired.banned"

HandleError ==
  \E t \in Live :
    /\ Running /\ InProc(t) /\ FrameOf(t).ok /\ FrameOf(t).name = ErrorTx
    /\ proc' = IF \E i \in DOMAIN FrameOf(t).fields : FatalError(FrameOf(t).fields[i].value)
                 THEN "panicked" ELSE proc
    /\ tasks' = tasks (-) One(t)
    /\ UNCHANGED <<status, version, userID, sinceLastPing, pushes>>
    /\ ProcUnchanged

\* One alert per nickname field of a chat-join notification.
Alert(f) == f.value \o " has logged into Cunning Giraffe."
RECURSIVE Alerts(_)
Alerts(fields) ==
  IF fields = <<>>
    THEN <<>>
    ELSE (IF Head(fields).name = FNick THEN <<Alert(Head(fields))>> ELSE <<>>)
         \o Alerts(Tail(fields))

HandleUserJoin ==
  \E t \in Live :
    /\ Running /\ InProc(t) /\ FrameOf(t).ok /\ FrameOf(t).name = UserJoinTx
    /\ pushes' = pushes \o Alerts(FrameOf(t).fields)
    /\ tasks' = tasks (-) One(t)
    /\ UNCHANGED <<status, version, userID, sinceLastPing, proc>>
    /\ ProcUnchanged

Handled == {ServerHandshake, CompatStatus, ServerInfo, LoginTx, SendPingTx, ErrorTx, UserJoinTx}

\* Any other transaction name: nothing is done.
IgnoreFrame ==
  \E t \in Live :
    /\ Running /\ InProc(t) /\ FrameOf(t).ok /\ FrameOf(t).name \notin Handled
    /\ tasks' = tasks (-) One(t)
    /\ UNCHANGED <<status, version, userID, sinceLastPing, proc, pushes>>
    /\ ProcUnchanged

\* ---------------------------------------------------------------- senders
\* A goroutine started for one transaction: sendAcknowledgement, sendPingReply,
\* sendCompatibilityCheck, sendClientInformation or SendLogin.
Send ==
  \E t \in Live :
    /\ Running /\ t \in Live /\ t.type = "send"
    /\ SendTransaction(t, t.name, ParamsAtSend(t.name, t.arg), EmptyBag)
    /\ UNCHANGED <<status, retryCount, version, userID, socket, sinceLastPing, transports,
                   frames, pushes, budget, menu, slept>>

\* The goroutine started on a login result: four transactions in program
\* order, then "this.status = Connected".
PostLoginOrder == <<"nick", "status", "icon", "join", "connected">>
PostLoginTx(pc) ==
  CASE pc = "nick" -> [name |-> SetNickTx, params |-> {<<"wired.user.nick", "Triforce">>}]
    [] pc = "status" -> [name |-> SetStatusTx, params |-> {<<"wired.user.status", "The APNs of Wired">>}]
    [] pc = "icon" -> [name |-> SetIconTx, params |-> {<<"wired.user.icon", IconData>>}]
    [] pc = "join" -> [name |-> JoinChatTx, params |-> {<<"wired.chat.id", "1">>}]
\* A post-login sequence that marks the session connected without joining
\* the channel.
PostLoginSkipsJoin(pc) ==
  CASE pc = "nick" -> "status"
    [] pc = "status" -> "icon"
    [] pc = "icon" -> "connected"
    [] pc = "join" -> "connected"

PostLoginNext(pc) ==
  CASE pc = "nick" -> "status"
    [] pc = "status" -> "icon"
    [] pc = "icon" -> "join"
    [] pc = "join" -> "connected"

PostLoginSend ==
  \E t \in Live :
    /\ Running /\ t \in Live /\ t.type = "postlogin" /\ t.pc # "connected"
    /\ SendTransaction(t, PostLoginTx(t.pc).name, PostLoginTx(t.pc).params,
                       One([t EXCEPT !.pc = PostLoginNext(t.pc)]))
    /\ UNCHANGED <<status, retryCount, version, userID, socket, sinceLastPing, transports,
                   frames, pushes, budget, menu, slept>>

PostLoginConnected ==
  \E t \in Live :
    /\ Running /\ t \in Live /\ t.type = "postlogin" /\ t.pc = "connected"
    /\ status' = Connected
    /\ tasks' = tasks (-) One(t)
    /\ UNCHANGED <<retryCount, version, userID, socket, sinceLastPing, transports, proc,
                   frames, sent, pushes, budget, menu, slept>>

\* ------------------------------------------------------------- Disconnect
\* main: fmt.Scanln returned and Disconnect sends the disconnect notice.
DisconnectSend ==
  \E t \in Live :
    /\ Running /\ t \in Live /\ t.type = "main" /\ t.pc = "input"
    /\ budget.inputs > 0
    /\ budget' = [budget EXCEPT !.inputs = @ - 1]
    /\ SendTransaction(t, DisconnectTx,
                       {<<FUserID, userID>>, <<"wired.user.disconnect_message", "">>},
                       One(MainTask("dstatus")))
    /\ UNCHANGED <<status, retryCount, version, userID, socket, sinceLastPing, transports,
                   frames, pushes, menu, slept>>

\* "this.status = Disconnected"
DisconnectStatus ==
  \E t \in Live :
    /\ Running /\ t \in Live /\ t.type = "main" /\ t.pc = "dstatus"
    /\ status' = Disconnected
    /\ tasks' = (tasks (-) One(t)) (+) One(MainTask("dclose"))
    /\ UNCHANGED <<retryCount, version, userID, socket, sinceLastPing, transports, proc,
                   frames, sent, pushes, budget, menu, slept>>

\* "this.socket.Close()"
DisconnectClose ==
  \E t \in Live :
    /\ Running /\ t \in Live /\ t.type = "main" /\ t.pc = "dclose"
    /\ IF socket = 0
         THEN /\ proc' = "panicked"
              /\ transports' = transports
              /\ tasks' = tasks
         ELSE /\ proc' = proc
              /\ transports' = [transports EXCEPT ![socket] = "closed"]
              /\ tasks' = (tasks (-) One(t)) (+) One(MainTask("exit"))
    /\ UNCHANGED <<status, retryCount, version, userID, socket, sinceLastPing, frames,
                   sent, pushes, budget, menu, slept>>

\* main returns: the process ends with every goroutine.
MainExit ==
  \E t \in Live :
    /\ Running /\ t \in Live /\ t.type = "main" /\ t.pc = "exit"
    /\ proc' = "exited"
    /\ UNCHANGED <<status, retryCount, version, userID, socket, sinceLastPing, transports,
                   tasks, frames, sent, pushes, budget, menu, slept>>

Next ==
  \/ DialOk
  \/ DialFail
  \/ ResetRetryCount
  \/ SendHandshake
  \/ StartListening
  \/ ReconnectStatus
  \/ ReconnectLoad
  \/ ReconnectStore
  \/ ReconnectCheck
  \/ ReconnectPanic
  \/ TickerFires
  \/ WatchdogTick
  \/ ReaderStart
  \/ ReadFrame
  \/ ReadError
  \/ DropFrame
  \/ HandleHandshake
  \/ HandleCompatStatus
  \/ HandleServerInfo
  \/ HandleLogin
  \/ HandlePing
  \/ HandleError
  \/ HandleUserJoin
  \/ IgnoreFrame
  \/ Send
  \/ PostLoginSend
  \/ PostLoginConnected
  \/ DisconnectSend
  \/ DisconnectStatus
  \/ DisconnectClose
  \/ MainExit
  \/ PeerClose
  \/ Advance

\* ------------------------------------------------------------ environments
\* The runs explored: what the network, the peer, the clock and the user do.
\*  - one transport, any one frame, watchdog ticks, the user ends the session;
\*  - transports that fail and are reopened, a login result in between;
\*  - a session that logs in and then loses the network for good;
\*  - one transport on which the peer sends login results and server infos;
\*  - a session that is reopened once and logs in, and a ticker period ends;
\*  - a session that logs in and is pinged by the peer, and a ticker period ends;
\*  - a session whose first frame does not decode and whose second is a login result;
\*  - one transport whose peer follows the protocol up to the login result;
\*  - a peer that follows the protocol on a transport that is lost and reopened;
\*  - one transport whose peer offers its handshake twice, at two versions;
\*  - a first dial that fails, and the user ends the session.
Scenarios ==
  {[budget |-> Budget(1, 0, 1, MaxTicks, 1), menu |-> "any"],
   [budget |-> Budget(MaxTransports, 1, 1, 0, 0), menu |-> "login"],
   [budget |-> Budget(1, RetryCeiling + 1, 1, 0, 0), menu |-> "login"],
   [budget |-> Budget(1, 0, MaxFrames, 0, 0), menu |-> "login, server info"],
   [budget |-> Budget(2, 0, 1, 1, 0), menu |-> "login"],
   [budget |-> Budget(1, 0, 2, 1, 0), menu |-> "login, ping"],
   [budget |-> Budget(1, 0, 2, 0, 0), menu |-> "malformed, login"],
   [budget |-> Budget(1, 0, 4, 0, 0), menu |-> "protocol"],
   [budget |-> Budget(2, 0, 1, 0, 0), menu |-> "protocol"],
   [budget |-> Budget(1, 0, 2, 0, 0), menu |-> "offers"],
   [budget |-> Budget(0, 1, 0, 0, 1), menu |-> "any"]}

Init == \E sc \in Scenarios : Start(sc.budget, sc.menu)

Spec == Init /\ [][Next]_vars

\* -------------------------------------------------------------- scheduling
\* A step of a goroutine that is not waiting for the network, the peer, the
\* clock or the user.  A read on a transport that was reset or closed returns
\* its error.
GoroutineStep ==
  \/ ResetRetryCount
  \/ SendHandshake
  \/ StartListening
  \/ ReconnectStatus
  \/ ReconnectLoad
  \/ ReconnectStore
  \/ ReconnectCheck
  \/ ReconnectPanic
  \/ WatchdogTick
  \/ ReaderStart
  \/ ReadError
  \/ DropFrame
  \/ HandleHandshake
  \/ HandleCompatStatus
  \/ HandleServerInfo
  \/ HandleLogin
  \/ HandlePing
  \/ HandleError
  \/ HandleUserJoin
  \/ IgnoreFrame
  \/ Send
  \/ PostLoginSend
  \/ PostLoginConnected
  \/ DisconnectStatus
  \/ DisconnectClose
  \/ MainExit

\* net.DialTimeout returns, with a transport or with an error.
DialReturns == DialOk \/ DialFail

\* The Go scheduler runs every goroutine that can run, time passes, and a
\* dial returns within its timeout.  The peer and the user are free: a read
\* has no deadline, so a peer that sends nothing keeps the read loop waiting.
LiveSpec ==
  /\ Init
  /\ [][Next]_vars
  /\ WF_vars(GoroutineStep)
  /\ WF_vars(Advance)
  /\ WF_vars(DialReturns)

\* -------------------------------------------------- a session that goes well
\* One transport that is opened and does not fail, with a peer that follows
\* the protocol and answers what it receives.
ProtocolInit == Start(Budget(1, 0, 4, 0, 0), "protocol")

ProtocolNext ==
  \/ DialOk
  \/ ResetRetryCount
  \/ SendHandshake
  \/ StartListening
  \/ ReaderStart
  \/ ReadFrame
  \/ HandleHandshake
  \/ HandleCompatStatus
  \/ HandleServerInfo
  \/ HandleLogin
  \/ Send
  \/ PostLoginSend
  \/ PostLoginConnected

\* The dial returns, every goroutine that can run is run, and the peer sends
\* the answer it owes.
ProtocolSpec ==
  /\ ProtocolInit
  /\ [][ProtocolNext]_vars
  /\ WF_vars(DialReturns)
  /\ WF_vars(GoroutineStep)
  /\ WF_vars(ReadFrame)

\* ------------------------------------------------------------------ the wire
\* Bytes are sequences of tokens: the characters a caller may put in a name or
\* a value, and the pieces of markup sendTransaction writes around them.
Quote == "\""
CR == "\r"
LF == "\n"
Chars == {"a", "<", "&", Quote, CR}
Prolog == "<?xml version=\"1.0\" encoding=\"UTF-8\"?>"
MsgOpen == "<p7:message name="
MsgRest == " xmlns:p7=\"http://www.zankasoftware.com/P7/Message\">"
FieldOpen == "<p7:field name="
Gt == ">"
FieldClose == "</p7:field>"
MsgClose == "</p7:message>"

\* The texts of at most n characters.
Text(n) == UNION {[1..k -> Chars] : k \in 0..n}

\* The fields of a mapping, each written as it is, in the order the range over
\* the map yields them.
RECURSIVE GeneratedFields(_)
GeneratedFields(pairs) ==
  IF pairs = <<>>
    THEN <<>>
    ELSE <<FieldOpen, Quote>> \o Head(pairs)[1] \o <<Quote, Gt>> \o Head(pairs)[2]
         \o <<FieldClose>> \o GeneratedFields(Tail(pairs))

\* sendTransaction's generatedXML: nothing is escaped, and the message ends
\* with "\r\n".
GeneratedXML(transaction, pairs) ==
  <<Prolog, MsgOpen, Quote>> \o transaction \o <<Quote, MsgRest>>
  \o GeneratedFields(pairs) \o <<MsgClose, CR, LF>>

\* The orders in which a range over a map may yield its entries.
Enumerations(m) ==
  {e \in [1..Cardinality(m) -> m] : \A i, j \in DOMAIN e : e[i] = e[j] => i = j}

\* The first position from p on that holds token c, 0 when there is none.
RECURSIVE ScanTo(_, _, _)
ScanTo(data, p, c) ==
  IF p > Len(data) THEN 0 ELSE IF data[p] = c THEN p ELSE ScanTo(data, p + 1, c)

\* reader.ReadBytes('\r'): the bytes up to and including the first carriage
\* return; no frame while there is none.
ReadBytes(stream) ==
  LET q == ScanTo(stream, 1, CR) IN IF q = 0 THEN <<>> ELSE SubSeq(stream, 1, q)

\* Characters the decoder takes as they are between markup: "<" opens a tag
\* and "&" a character entity, and with the characters at hand neither can be
\* completed.
Verbatim(data, p, q) == \A i \in p..q : data[i] \in Chars \ {"<", "&"}

\* A quoted attribute value starting at p.
ReadAttr(data, p) ==
  LET q == ScanTo(data, p + 1, Quote) IN
  IF p > Len(data) \/ data[p] # Quote \/ q = 0 \/ ~Verbatim(data, p + 1, q - 1)
    THEN [ok |-> FALSE, text |-> <<>>, next |-> 0]
    ELSE [ok |-> TRUE, text |-> SubSeq(data, p + 1, q - 1), next |-> q + 1]

\* The field elements from p on, up to the end of the message element.  A
\* field's value is its inner XML.
RECURSIVE UnmarshalFields(_, _, _)
UnmarshalFields(data, p, acc) ==
  IF p > Len(data)
    THEN [ok |-> FALSE, fields |-> <<>>]
    ELSE IF data[p] = MsgClose
      THEN [ok |-> TRUE, fields |-> acc]
      ELSE LET a == ReadAttr(data, p + 1)
               q == ScanTo(data, a.next + 1, FieldClose)
           IN IF \/ data[p] # FieldOpen \/ ~a.ok
                 \/ a.next > Len(data) \/ data[a.next] # Gt
                 \/ q = 0 \/ ~Verbatim(data, a.next + 1, q - 1)
                THEN [ok |-> FALSE, fields |-> <<>>]
                ELSE UnmarshalFields(data, q + 1,
                       Append(acc, Field(a.text, SubSeq(data, a.next + 1, q - 1))))

\* xml.Unmarshal into p7Message: the name attribute of the root element and
\* its field elements; what follows the root element is not read.
Unmarshal(data) ==
  LET a == ReadAttr(data, 3)
      r == UnmarshalFields(data, a.next + 1, <<>>)
  IN IF /\ Len(data) >= 3 /\ data[1] = Prolog /\ data[2] = MsgOpen
        /\ a.ok /\ a.next <= Len(data) /\ data[a.next] = MsgRest /\ r.ok
       THEN Msg(a.text, r.fields)
       ELSE Malformed

\* The field mappings handed to the encoder: any values under at most two keys.
Keys == {<<"a">>, <<"a", "a">>}
Mappings == UNION {{{<<k, f[k]>> : k \in K} : f \in [K -> Text(MaxText)]} : K \in SUBSET Keys}

\* A sender goroutine about to call sendTransaction on an open transport.
CodecInit ==
  \E name \in Text(MaxText), m \in Mappings :
    /\ status = Disconnected
    /\ retryCount = 0
    /\ version = ""
    /\ userID = ""
    /\ socket = 1
    /\ sinceLastPing = PingStale
    /\ transports = <<"open">>
    /\ tasks = One(SendTask(1, 0, name, m))
    /\ proc = "running"
    /\ frames = <<>>
    /\ sent = <<>>
    /\ pushes = <<>>
    /\ budget = Budget(0, 0, 0, 0, 0)
    /\ menu = "echo"
    /\ slept = 0

\* sendTransaction builds the message and writes it.
EncodeAndWrite ==
  \E t \in Live :
    /\ Running /\ t.type = "send"
    /\ \E e \in Enumerations(t.arg) :
         sent' = Append(sent, [name |-> t.name, params |-> t.arg,
                               bytes |-> GeneratedXML(t.name, e)])
    /\ tasks' = tasks (-) One(t)
    /\ UNCHANGED <<status, retryCount, version, userID, socket, sinceLastPing, transports,
                   proc, frames, pushes, budget, menu, slept>>

\* The bytes come back: readData cuts a frame and processData decodes it.
ReadAndDecode ==
  /\ Running
  /\ Len(sent) > Len(frames)
  /\ LET data == ReadBytes(sent[Len(frames) + 1].bytes)
     IN /\ data # <<>>
        /\ frames' = Append(frames, [frame |-> Unmarshal(data), sock |-> socket])
  /\ UNCHANGED <<status, retryCount, version, userID, socket, sinceLastPing, transports,
                 tasks, proc, sent, pushes, budget, menu, slept>>

CodecNext ==
  \/ EncodeAndWrite
  \/ ReadAndDecode

CodecSpec == CodecInit /\ [][CodecNext]_vars

\* ------------------------------------------------------------------ properties
IsMain(t, pcs) == t.type = "main" /\ t.pc \in pcs
Frame(k) == frames[k].frame
\* Frame k has been dispatched: its processData goroutine is gone.
Dispatched(k) == k \in DOMAIN frames /\ ~\E t \in Live : t.type = "proc" /\ t.by = k

\* C1: whenever the status is Connected, the user id and the negotiated
\* version are both non-empty.
C1_ConnectedIsIdentified == status = Connected => (userID # "" /\ version # "")

\* C2: the status starts as Disconnected and, apart from the assignment made
\* by Disconnect(), changes only along Disconnected -> Reconnecting,
\* Reconnecting -> Connected, Connected -> Reconnecting and
\* Reconnecting -> Disconnected.
Diagram ==
  {<<Disconnected, Reconnecting>>, <<Reconnecting, Connected>>,
   <<Connected, Reconnecting>>, <<Reconnecting, Disconnected>>}
ByDisconnect == \E t \in Live : IsMain(t, {"dstatus"}) /\ t \notin Live'
C2_OnlyDiagramTransitions ==
  /\ status = Disconnected
  /\ [][status' # status => (<<status, status'>> \in Diagram \/ ByDisconnect)]_vars

\* C3: once Disconnect() has returned, and no transport was reset by the peer,
\* the Reconnect Policy does not run: the status stays Disconnected, retryCount
\* keeps its value, no delay is started and no transport is opened.
DisconnectReturned == \E t \in Live : IsMain(t, {"exit"})
OnlyLocalClose == \A n \in DOMAIN transports : transports[n] # "reset"
Sleepers == {t \in Live : t.type = "reconnect" /\ t.pc = "sleep"}
C3_NoReconnectAfterDisconnect ==
  [][(DisconnectReturned /\ OnlyLocalClose) =>
       /\ status' = Disconnected
       /\ retryCount' = retryCount
       /\ Sleepers' \subseteq Sleepers
       /\ Len(transports') = Len(transports)]_vars

\* C4: retryCount changes only by the increment of a Reconnect, which adds
\* exactly 1 to the value the counter has when it is written (no update is
\* lost between the read and the write), and by the reset of a successful
\* open, which makes it 0 before the handshake initiation is written.
Gone(t) == CopiesIn(t, tasks') < CopiesIn(t, tasks)
Incrementing == \E t \in Live : t.type = "reconnect" /\ t.pc = "store" /\ Gone(t)
Resetting ==
  \E t \in Live : t.type \in {"main", "reconnect"} /\ t.pc = "reset" /\ Gone(t)
OpenedNotGreeted(t) == t.type \in {"main", "reconnect"} /\ t.pc = "handshake"
HandshakesOn(n) == {i \in DOMAIN sent : sent[i].name = ClientHandshake /\ sent[i].sock = n}
C4_RetryCountSteps ==
  [][/\ Incrementing => retryCount' = retryCount + 1
     /\ Resetting => (retryCount' = 0 /\ HandshakesOn(socket) = {})
     /\ retryCount' # retryCount => (Incrementing \/ Resetting)
     /\ (\E t \in Live : OpenedNotGreeted(t)) => retryCount = 0]_vars

\* Two failed attempts were counted 1, 2 and the open that followed them reset
\* the counter before its handshake initiation went out.
C4_Witness ==
  /\ retryCount = 0
  /\ budget.fails = RetryCeiling - 1 /\ budget.opens = 0 /\ Len(transports) = 1
  /\ HandshakesOn(socket) # {}
  /\ \E t \in Live : t.type = "reconnect" /\ t.pc = "listen"

\* C5: once the retry ceiling is exceeded and the status has been set to
\* Disconnected, the session is over: the status stays Disconnected, no
\* transport is dialled, no delay is started and no transaction is written.
CeilingHit == \E t \in Live : t.type = "reconnect" /\ t.pc = "panic"
C5_CeilingIsTerminal ==
  [][CeilingHit =>
       /\ status' = Disconnected
       /\ budget'.opens = budget.opens /\ budget'.fails = budget.fails
       /\ Sleepers' \subseteq Sleepers
       /\ sent' = sent]_vars

\* C6: retryCount increases only while the status is Reconnecting, and it is
\* reset by the step that follows a successful open and by no other.
C6_IncreaseWhileReconnecting ==
  [][/\ retryCount' > retryCount => status = Reconnecting
     /\ (retryCount' < retryCount \/ Resetting) => (Resetting /\ retryCount' = 0)]_vars

\* Transactions caused by frame k: written so far, and still to be written by
\* a live sender goroutine.
SentCount(k, name) == Cardinality({i \in DOMAIN sent : sent[i].by = k /\ sent[i].name = name})
PendingCount(k, name) ==
  LET S == {t \in Live : t.type = "send" /\ t.by = k /\ t.name = name}
  IN IF S = {} THEN 0 ELSE CopiesIn(CHOOSE t \in S : TRUE, tasks)
Started(k, name) == SentCount(k, name) + PendingCount(k, name)
IsFrame(k, name) == Frame(k).ok /\ Frame(k).name = name

\* C7: a server info dispatched while the status is Connected starts no login;
\* dispatched in any other status it starts one login with the guest
\* credentials.  No login is ever written with other credentials.
GuestLogin(t) ==
  SendTask(t.sock, t.by, "wired.send_login",
           {<<"wired.user.login", "guest">>,
            <<"wired.user.password", "da39a3ee5e6b4b0d3255bfef95601890afd80709">>})
C7_ServerInfoLogin ==
  [][/\ \A t \in Live :
          (t.type = "proc" /\ IsFrame(t.by, ServerInfo) /\ Gone(t)) =>
            /\ sent' = sent
            /\ IF status = Connected
                 THEN tasks' = tasks (-) One(t)
                 ELSE tasks' = (tasks (-) One(t)) (+) One(GuestLogin(t))
     /\ \A i \in DOMAIN sent' :
          sent'[i].name = "wired.send_login" =>
            /\ sent'[i].by \in DOMAIN frames
            /\ IsFrame(sent'[i].by, ServerInfo)
            /\ sent'[i].params = GuestLogin(ProcTask(0, 0)).arg]_vars

\* A server info arrived after the login result, was dispatched while the
\* session was Connected, and no login went out.
C7_Witness ==
  /\ Len(frames) = 2 /\ IsFrame(1, LoginTx) /\ IsFrame(2, ServerInfo)
  /\ Dispatched(1) /\ Dispatched(2)
  /\ status = Connected
  /\ Started(2, SendLoginTx) = 0
  /\ Len(sent) = 5

\* C8: a dispatched handshake offer is answered with exactly one of the
\* compatibility check and the client info: the compatibility check if the
\* offer's flag field is "1", wherever the field stands in the message, and
\* the client info otherwise.
FlagSet(k) ==
  \E i \in DOMAIN Frame(k).fields :
    Frame(k).fields[i].name = FCompat /\ Frame(k).fields[i].value = "1"
C8_DecisionIsTheFlag ==
  \A k \in DOMAIN frames :
    (IsFrame(k, ServerHandshake) /\ Dispatched(k)) =>
      /\ Started(k, CompatSpec) = IF FlagSet(k) THEN 1 ELSE 0
      /\ Started(k, ClientInfo) = IF FlagSet(k) THEN 0 ELSE 1

\* An offer whose version field comes before its flag "1" has had its
\* compatibility check written.
C8_Witness ==
  \E k \in DOMAIN frames :
    /\ IsFrame(k, ServerHandshake) /\ Len(Frame(k).fields) = 2
    /\ Frame(k).fields[1].name = FVersion
    /\ Frame(k).fields[2] = Field(FCompat, "1")
    /\ SentCount(k, CompatSpec) = 1

\* C9: for a handshake offer whose flag is "0", the client info it causes is
\* written only after the acknowledgement it causes, and it causes no
\* compatibility check.
FlagZero(k) == \E i \in DOMAIN Frame(k).fields : Frame(k).fields[i] = Field(FCompat, "0")
C9_AckBeforeClientInfo ==
  \A k \in DOMAIN frames :
    (IsFrame(k, ServerHandshake) /\ FlagZero(k)) =>
      /\ Started(k, CompatSpec) = 0
      /\ \A i \in DOMAIN sent :
           (sent[i].by = k /\ sent[i].name = ClientInfo) =>
             \E j \in 1..(i - 1) : sent[j].by = k /\ sent[j].name = Acknowledge

\* C10: a login result carrying a user id leaves that id in userID; the
\* transactions it causes are set-nickname, set-status, set-icon and
\* join-channel in that order; and the status becomes Connected only by a
\* login result all four of whose transactions have been issued.
PostLoginNames == <<SetNickTx, SetStatusTx, SetIconTx, JoinChatTx>>
SentBy(k) == SelectSeq(sent, LAMBDA e : e.by = k)
InOrder(k) ==
  /\ Len(SentBy(k)) <= Len(PostLoginNames)
  /\ \A i \in DOMAIN SentBy(k) : SentBy(k)[i].name = PostLoginNames[i]
C10_LoginSequence ==
  [][/\ \A t \in Live :
          (t.type = "proc" /\ IsFrame(t.by, LoginTx) /\ Gone(t)
             /\ Frame(t.by).fields # <<>>) =>
            userID' = Frame(t.by).fields[1].value
     /\ \A k \in DOMAIN frames' : IsFrame(k, LoginTx)' => InOrder(k)'
     /\ (status' = Connected /\ status # Connected) =>
          \E k \in DOMAIN frames : IsFrame(k, LoginTx) /\ Len(SentBy(k)) = Len(PostLoginNames)]_vars

\* The login result with id "42" was followed on the wire by the four
\* transactions in order, and the session is Connected.
C10_Witness ==
  /\ status = Connected /\ userID = "42"
  /\ \E k \in DOMAIN frames :
       /\ Frame(k) = LoginResult
       /\ Len(SentBy(k)) = Len(PostLoginNames) /\ InOrder(k)
       /\ \A i \in DOMAIN SentBy(k) : SentBy(k)[i].ok /\ SentBy(k)[i].sock = frames[k].sock

\* C11: a compatibility status whose status field is "1" starts one client
\* info and nothing else; one whose status field is anything else starts no
\* client info and ends the process, after which nothing is read, dispatched
\* or written.
StatusFields(k) ==
  {Frame(k).fields[i].value : i \in {j \in DOMAIN Frame(k).fields : Frame(k).fields[j].name = CompatStatus}}
C11_CompatStatusFatal ==
  [][/\ \A t \in Live :
          (t.type = "proc" /\ IsFrame(t.by, CompatStatus) /\ Gone(t)) =>
            /\ sent' = sent
            /\ StatusFields(t.by) = {"1"} =>
                 /\ proc' = proc
                 /\ tasks' = (tasks (-) One(t))
                              (+) One(SendTask(t.sock, t.by, "wired.client_info", ClientInfoParams))
            /\ (StatusFields(t.by) # {} /\ "1" \notin StatusFields(t.by)) =>
                 /\ proc' = "panicked"
                 /\ tasks' = tasks (-) One(t)
     /\ proc = "panicked" =>
          (sent' = sent /\ frames' = frames /\ tasks' = tasks /\ proc' = proc)]_vars

\* A compatibility status "0" was dispatched: the process has ended and no
\* client info was started for it.
C11_Witness ==
  /\ proc = "panicked"
  /\ \E k \in DOMAIN frames :
       /\ IsFrame(k, CompatStatus) /\ StatusFields(k) = {"0"} /\ Dispatched(k)
       /\ Started(k, ClientInfo) = 0
  /\ \A i \in DOMAIN sent : sent[i].name = ClientHandshake

\* C12: a disconnect notice is written only when a user id is known, and it
\* carries that id; once Disconnect() has returned the transport is closed.
UserIDOf(e) == {p[2] : p \in {q \in e.params : q[1] = FUserID}}
C12_NoticeOnlyWithUserID ==
  /\ \A i \in DOMAIN sent :
       sent[i].name = DisconnectTx => (UserIDOf(sent[i]) # {} /\ "" \notin UserIDOf(sent[i]))
  /\ DisconnectReturned => transports[socket] = "closed"

\* C13: userID is empty once Disconnect() has returned, and while a Reconnect
\* is counting the failure, waiting out its delay or giving up.
SessionEnded ==
  \/ DisconnectReturned
  \/ \E t \in Live : t.type = "reconnect" /\ t.pc \in {"load", "store", "check", "sleep", "panic"}
C13_UserIDCleared == SessionEnded => userID = ""

\* C14: the tick of a watchdog starts one ping reply if the status is Connected
\* and the last ping request is at least 60 seconds old, and none otherwise;
\* and no ticker period has more than one ping reply started for it, however
\* many transports the session has had.
PingSenders(e) == {t \in Live : t.type = "send" /\ t.name = PingTx /\ t.by = 0 - e}
PingsOf(e) == SentCount(0 - e, PingTx) + BagCardinality([t \in PingSenders(e) |-> tasks[t]])
TickStartsPing ==
  \A t \in Live :
    (t.type = "watchdog" /\ t.tmp > 0 /\ Gone(t)) =>
      PingsOf(t.tmp)' = PingsOf(t.tmp)
                        + (IF status = Connected /\ sinceLastPing >= 60 THEN 1 ELSE 0)
C14_OnePingPerTick ==
  /\ [][TickStartsPing]_vars
  /\ [](\A e \in 1..MaxTicks : PingsOf(e) <= 1)

\* C15: at most one watchdog goroutine exists at any time.
CountOf(type) == BagCardinality([t \in {u \in Live : u.type = type} |-> tasks[t]])
C15_OneWatchdog == CountOf("watchdog") <= 1

\* C16: at most one read loop exists at any time; a read loop is started only
\* by a Connect whose dial succeeded, as its last step; and a transport is
\* opened only when no read loop exists.
C16_OneReadLoop ==
  /\ [](CountOf("reader") <= 1)
  /\ [][CountOf("reader")' > CountOf("reader") =>
          /\ \E t \in Live : InConnect(t) /\ t.pc = "listen" /\ Gone(t)
          /\ socket # 0]_vars
  /\ [][Len(transports') > Len(transports) => CountOf("reader") = 0]_vars

\* The read loop of the second transport is reading, and it is the only one.
C16_Witness ==
  /\ Len(transports) = 2 /\ socket = 2
  /\ CountOf("reader") = 1
  /\ \E t \in Live : t.type = "reader" /\ t.pc = "read" /\ t.sock = 2

\* C17: a read error dispatches nothing, ends the read loop that met it and
\* starts Reconnect exactly once; a Reconnect is started for a transport only
\* by the read loop of that transport, when its read fails.
ReadFailed ==
  \/ \E t \in Live : t.type = "reader" /\ t.pc = "read" /\ Gone(t) /\ proc' = proc
  \/ \E n \in DOMAIN transports :
       CopiesIn(ReconnectTask("status", n), tasks') > CopiesIn(ReconnectTask("status", n), tasks)
C17_ReadErrorReconnectsOnce ==
  [][ReadFailed =>
       /\ \E t \in Live :
            /\ t.type = "reader" /\ t.pc = "read" /\ transports[t.sock] # "open"
            /\ tasks' = (tasks (-) One(t)) (+) One(ReconnectTask("status", t.sock))
       /\ frames' = frames
       /\ CountOf("proc")' = CountOf("proc")
       /\ CountOf("reader")' = CountOf("reader") - 1
       /\ CountOf("reconnect")' = CountOf("reconnect") + 1
       /\ UNCHANGED <<status, retryCount, sent>>]_vars

\* The peer reset the transport after a frame was read: the read loop is gone
\* and one Reconnect has been started for it.
C17_Witness ==
  /\ Len(frames) = 1
  /\ \E n \in DOMAIN transports :
       /\ transports[n] = "reset"
       /\ ReconnectTask("status", n) \in Live
       /\ CopiesIn(ReconnectTask("status", n), tasks) = 1
  /\ CountOf("reader") = 0 /\ CountOf("reconnect") = 1

\* C18: a write that fails starts the Reconnect Policy: the step in which
\* sendTransaction gets a write error starts a Reconnect.
WriteFailed == Len(sent') = Len(sent) + 1 /\ ~sent'[Len(sent')].ok
C18_WriteFailureReconnects ==
  [][WriteFailed => CountOf("reconnect")' = CountOf("reconnect") + 1]_vars

\* C19: a Connect whose dial fails writes nothing, starts no read loop and no
\* watchdog, starts Reconnect once and returns to its caller without dialling
\* again; the first step of the Reconnect it started sets the status to
\* Reconnecting.
DialFailed == budget'.fails < budget.fails
C19_FailedConnectHandsOver ==
  [][/\ DialFailed =>
          /\ sent' = sent
          /\ CountOf("reader")' = CountOf("reader")
          /\ CountOf("watchdog")' = CountOf("watchdog")
          /\ \E t \in Live :
               /\ InConnect(t) /\ t.pc = "dial"
               /\ tasks' = ((tasks (-) One(t)) (+) One(ReconnectTask("status", 0)))
                           (+) (IF t.type = "main" THEN One(MainTask("input")) ELSE EmptyBag)
          /\ budget'.fails = budget.fails - 1 /\ budget'.opens = budget.opens
          /\ \A u \in Live' : ~(u.type \in {"main", "reconnect"} /\ u.pc = "dial")
     /\ \A t \in Live :
          (t.type = "reconnect" /\ t.pc = "status" /\ Gone(t)) => status' = Reconnecting]_vars

\* The first dial of main failed: Connect has returned to main, nothing was
\* written or started but the Reconnect, which has set the status.
C19_Witness ==
  /\ transports = <<>> /\ socket = 0 /\ sent = <<>>
  /\ MainTask("input") \in Live
  /\ CountOf("reader") = 0 /\ CountOf("watchdog") = 0 /\ CountOf("reconnect") = 1
  /\ status = Reconnecting /\ retryCount = 0

\* C20: dispatching a frame that does not decode ends its processData
\* goroutine and changes nothing else: no field of the Connection, nothing
\* written, no goroutine started, the read loop left as it is.
C20_MalformedIsDropped ==
  [][\A t \in Live :
       (t.type = "proc" /\ ~Frame(t.by).ok /\ Gone(t)) =>
         /\ UNCHANGED <<status, retryCount, sinceLastPing, userID, version, socket>>
         /\ UNCHANGED <<sent, frames, transports, proc, pushes>>
         /\ tasks' = tasks (-) One(t)]_vars

\* The first frame did not decode and was dropped; the login result that
\* followed it on the same transport was read and dispatched, and the session
\* is Connected.
C20_Witness ==
  /\ Len(frames) = 2
  /\ ~Frame(1).ok /\ Dispatched(1)
  /\ Frame(2) = LoginResult /\ Dispatched(2) /\ frames[2].sock = frames[1].sock
  /\ status = Connected /\ userID = "42" /\ retryCount = 0
  /\ \A i \in DOMAIN sent : sent[i].by # 1
  /\ CountOf("reader") = 1 /\ CountOf("reconnect") = 0

\* C21: dispatching a ping request records the present as the time of the
\* last ping, starts exactly one ping reply, and leaves status, retryCount,
\* userID and version as they are.
C21_PingRequest ==
  [][\A t \in Live :
       (t.type = "proc" /\ IsFrame(t.by, SendPingTx) /\ Gone(t)) =>
         /\ sinceLastPing' = 0
         /\ tasks' = (tasks (-) One(t)) (+) One(SendTask(t.sock, t.by, "wired.ping", {}))
         /\ UNCHANGED <<status, retryCount, userID, version, sent, proc>>]_vars

\* A ping request that came when the last one was stale has been answered
\* with one ping reply on the transport it came from.
C21_Witness ==
  \E k \in DOMAIN frames :
    /\ IsFrame(k, SendPingTx) /\ Dispatched(k)
    /\ sinceLastPing = 0
    /\ Started(k, PingTx) = 1 /\ SentCount(k, PingTx) = 1
    /\ \E i \in DOMAIN sent :
         sent[i].by = k /\ sent[i].name = PingTx /\ sent[i].ok /\ sent[i].sock = frames[k].sock

\* C22: what an error message does is decided by its error code field alone:
\* with the login-failure or the ban code the process ends; with any other
\* code its dispatch changes nothing and writes nothing.
ErrorCodeOf(k) ==
  {Frame(k).fields[i].value : i \in {j \in DOMAIN Frame(k).fields : Frame(k).fields[j].name = ErrorTx}}
FatalCodes == {"wired.error.login_failed", "wired.banned"}
C22_ErrorCodeDecides ==
  [][\A t \in Live :
       (t.type = "proc" /\ IsFrame(t.by, ErrorTx) /\ Gone(t)) =>
         IF ErrorCodeOf(t.by) \cap FatalCodes # {}
           THEN proc' = "panicked"
           ELSE /\ proc' = proc
                /\ tasks' = tasks (-) One(t)
                /\ UNCHANGED <<status, retryCount, sinceLastPing, userID, version, socket, sent>>]_vars

\* C23: on each transport the transactions of the session set-up are written
\* in the order handshake-initiation, compatibility check (optional), client
\* info, login, post-login sequence: none of them is written to a transport
\* on which its predecessor has not been written, the peer following the
\* protocol.
Rank(name) ==
  CASE name = ClientHandshake -> 1
    [] name = CompatSpec -> 2
    [] name = ClientInfo -> 3
    [] name = SendLoginTx -> 4
    [] name \in {SetNickTx, SetStatusTx, SetIconTx, JoinChatTx} -> 5
    [] OTHER -> 0
Predecessors(r) == IF r = 3 THEN {1, 2} ELSE {r - 1}
Ordered(w) ==
  \A i \in DOMAIN w :
    Rank(w[i].name) > 1 =>
      \E j \in 1..(i - 1) : Rank(w[j].name) \in Predecessors(Rank(w[i].name))
C23_SetupOrder ==
  menu = "protocol" => \A n \in DOMAIN transports : Ordered(Wire(n))

\* C24: a compatibility check carries the catalog entry of the protocol
\* version of the handshake offer that caused it, which is the empty document
\* when the catalog has no entry for that version.
OfferVersion(k) == ScanHandshake(Frame(k).fields, "", FALSE).version
HasVersion(k) == \E i \in DOMAIN Frame(k).fields : Frame(k).fields[i].name = FVersion
C24_CheckCarriesOfferedSpec ==
  \A i \in DOMAIN sent :
    (sent[i].name = CompatSpec /\ sent[i].by > 0 /\ HasVersion(sent[i].by)) =>
      sent[i].params = {<<CompatSpec, Specs(OfferVersion(sent[i].by))>>}

\* C25: every call of Connect by Reconnect comes after one delay of 15
\* seconds: when the first k dials of a run fail and the next one succeeds,
\* retryCount has gone through 1..k and is then reset to 0, and Reconnect
\* has slept k times 15 seconds in all.
\* The run that may lose RetryCeiling + 1 dials, and the dials it has lost.
LosesDials == menu = "login" /\ budget.opens + Len(transports) = 1
FailedDials == (RetryCeiling + 1) - budget.fails
At(pcs) == \E t \in Live : InConnect(t) /\ t.pc \in pcs
C25_FixedDelayPerRetry ==
  LosesDials =>
    /\ Len(transports) = 0 =>
         /\ retryCount \in {FailedDials - 1, FailedDials} \ {-1}
         /\ At({"dial"}) => retryCount = FailedDials /\ slept = FailedDials * ReconnectDelay
    /\ Len(transports) = 1 =>
         /\ At({"reset"}) => retryCount = FailedDials /\ slept = FailedDials * ReconnectDelay
         /\ At({"handshake"}) => retryCount = 0 /\ slept = FailedDials * ReconnectDelay
C25_Witness ==
  /\ LosesDials /\ FailedDials = 3 /\ Len(transports) = 1
  /\ At({"handshake"}) /\ retryCount = 0 /\ slept = 45

\* C26: for every transaction name and every field mapping, the empty one
\* included, the encoded bytes end with the one carriage return that delimits
\* the frame, and the frame cut from them decodes to a message with the name
\* and the set of (field name, value) pairs that were encoded.
Last(q) == q[Len(q)]
EndsWithSentinel(e) == Last(e.bytes) = CR /\ ScanTo(e.bytes, 1, CR) = Len(e.bytes)
DecodesTo(f, e) ==
  /\ f.ok
  /\ f.name = e.name
  /\ {<<f.fields[i].name, f.fields[i].value>> : i \in DOMAIN f.fields} = e.params
C26_RoundTrip ==
  /\ \A i \in DOMAIN sent : EndsWithSentinel(sent[i])
  /\ \A k \in DOMAIN frames : DecodesTo(frames[k].frame, sent[k])

\* C27: when the status is Reconnecting, it becomes Connected only through
\* the post-login sequence of a login result that was read from the newly
\* opened transport, the one whose read loop is running; the post-login
\* sequence of a transport whose failure started Reconnect does not mark the
\* session Connected.
ReadLoopOn(n) == \E r \in Live : r.type = "reader" /\ r.pc = "read" /\ r.sock = n
C27_StaleLoginCannotConnect ==
  [][(status = Reconnecting /\ status' = Connected) =>
       \E t \in Live :
         /\ t.type = "postlogin" /\ t.pc = "connected" /\ Gone(t)
         /\ IsFrame(t.by, LoginTx)
         /\ ReadLoopOn(frames[t.by].sock)]_vars

\* C28: sendTransaction is never executed while this.socket is nil, that is,
\* after a Connect whose dial failed: no state with a nil socket has a
\* goroutine whose next step is a call of sendTransaction (from Connect,
\* Disconnect, a sender goroutine or the post-login sequence).
CallsSendTransaction(t) ==
  \/ InConnect(t) /\ t.pc = "handshake"
  \/ t.type = "send"
  \/ t.type = "postlogin" /\ t.pc # "connected"
  \/ t.type = "main" /\ t.pc = "input" /\ budget.inputs > 0
C28_NoSendOnNilSocket ==
  (Running /\ socket = 0) => ~\E t \in Live : CallsSendTransaction(t)

\* C29: a transaction that reaches a transport was caused by that transport:
\* by the Connect that opened it, by a frame read from it or by the watchdog
\* started for it (the disconnect notice is caused by the user); and the
\* first transaction that reaches a transport is the handshake initiation.
OwnSession(e) == e.name \in {ClientHandshake, DisconnectTx} \/ e.origin = e.sock
C29_WritesStayOnTheirTransport ==
  /\ \A i \in DOMAIN sent : sent[i].ok => OwnSession(sent[i])
  /\ \A n \in DOMAIN transports : Wire(n) # <<>> => Wire(n)[1].name = ClientHandshake

\* C30: whenever the status is Reconnecting, it is later Connected or
\* Disconnected, whatever the peer does, as long as the process runs and the
\* network still answers the dials of this run.
DialsLeft == budget.opens > 0 \/ budget.fails > 0
C30_ReconnectingEnds ==
  (status = Reconnecting) ~> (status \in {Connected, Disconnected} \/ ~Running \/ ~DialsLeft)

\* C31: with a peer that follows the protocol and a transport that does not
\* fail, a session whose Connect has opened its transport is eventually
\* Connected, the goroutines being scheduled fairly.
C31_SessionConnects == (socket # 0) ~> (status = Connected)
C31_Witness ==
  /\ menu = "protocol" /\ status = Connected /\ transports = <<"open">>
  /\ \E i \in DOMAIN Wire(1) : Wire(1)[i].name = CompatSpec
  /\ \E i \in DOMAIN Wire(1) : Wire(1)[i].name = JoinChatTx
  /\ \A k \in DOMAIN frames : Dispatched(k)

\* C32: at most one login transaction reaches each transport; a server info
\* that arrives after the login result and before the post-login sequence
\* has set the status to Connected causes no second login.
LoginsOn(n) == {i \in DOMAIN Wire(n) : Wire(n)[i].name = SendLoginTx}
C32_OneLoginPerTransport ==
  \A n \in DOMAIN transports : Cardinality(LoginsOn(n)) <= 1
====
